---- MODULE Spec2Model ----
(***************************************************************************)
(* Model of backend/app.py: the Flask handlers verify_subscription         *)
(* (POST /verify-subscription) and get_node_details (GET /api/nodes/<a>).  *)
(*                                                                         *)
(* Strings that the code inspects character by character (addresses, via   *)
(* the SQL function LOWER) are sequences of one-character strings.         *)
(* The two collaborators are state that no handler writes: `chain` is what *)
(* contract.functions.hasActiveSubscription(arg).call() yields for each    *)
(* argument, `store` is the pending_nodes table in rowid order and         *)
(* `dbFault` the sqlite3 call that raises, if any.  `stdout` is sys.stdout,  *)
(* the one stream the print calls of all threads write to: its kind is     *)
(* fixed by how the process was started, its pending bytes grow with every *)
(* print.  The development server runs handlers on threads, so each worker *)
(* has its own position `pc` and its own locals (req, conn, rows, calls,   *)
(* exc, resp), and a step of one worker is one statement that touches      *)
(* shared state: every print is a step of its own.                         *)
(***************************************************************************)
EXTENDS Integers, Sequences, FiniteSets, TLC

VARIABLES chain, store, dbFault, stdout, pc, req, resp, conn, rows, calls, exc

vars == <<chain, store, dbFault, stdout, pc, req, resp, conn, rows, calls, exc>>

(***************************************************************************)
(* Bounds and input domains                                                *)
(***************************************************************************)
MaxRows == 2

Workers == {"t1", "t2"}

Addresses == { <<"0", "x", "a">>, <<"0", "x", "A">>, <<"0", "x", "b">> }

\* the account 0xa is registered under either spelling, 0xb never is
StoredAddresses == { <<"0", "x", "a">>, <<"0", "x", "A">> }

Countries == {"DE"}

Statuses == {"approved", "pending"}

\* bytes sys.stdout holds pending before it writes them to its sink
\* (the chunk size of io.TextIOWrapper)
ChunkSize == 8192

\* the buffer is followed while it is empty or this close to ChunkSize
Window == 128

\* "fetch", "fetch_cut": the stored TEXT is not valid UTF-8, so reading a row
\* raises; the error message quotes the invalid byte, or is cut before it
DbFaults == {"none", "connect", "query", "fetch", "fetch_cut"}

\* sys.stdout: UTF-8 or ASCII-only over a sink that takes every write (a
\* terminal, a file, a log collector), or block-buffered UTF-8 over a sink
\* that rejects every write: "full" is a full device (ENOSPC), "pipe" a
\* pipe whose reader has exited (EPIPE).
\* A process started without a stdout descriptor has sys.stdout = None:
\* every print passes, as for "utf-8".
StdoutKinds == {"utf-8", "ascii", "full", "pipe"}

\* fill: the bytes pending in the stream, counted for the rejecting kinds
Stream(k, n) == [kind |-> k, fill |-> n]

\* the sink rejects every write
Rejecting(s) == s.kind \in {"full", "pipe"}

(***************************************************************************)
(* JSON request bodies of POST /verify-subscription.                       *)
(* kind: what the body parses to; has/eth: the eth_address member.         *)
(* All bodies are sent as application/json: for another content type       *)
(* get_json returns None or raises depending on the Flask release, and     *)
(* both are covered by the kinds "null" and "malformed".                   *)
(***************************************************************************)
JsonNull == [type |-> "null", val |-> << >>]

JsonString(s) == [type |-> "string", val |-> s]

JsonZero == [type |-> "number", val |-> <<"0">>]

EthValues == {JsonNull, JsonString(<< >>), JsonZero} \cup {JsonString(a) : a \in Addresses}

Bodies ==
    { [kind |-> k, has |-> FALSE, eth |-> JsonNull] : k \in {"malformed", "null", "array", "object"} }
    \cup { [kind |-> "object", has |-> TRUE, eth |-> v] : v \in EthValues }

NoBody == [kind |-> "none", has |-> FALSE, eth |-> JsonNull]

NoReq == [op |-> "none", body |-> NoBody, address |-> << >>]

NoResp == [status |-> 0, body |-> [none |-> "none"]]

(***************************************************************************)
(* Python values and exceptions                                            *)
(***************************************************************************)
Exc(t, m) == [type |-> t, message |-> m]

NoExc == Exc("", "")

\* str(e): the exception's message
Str(e) == e.message

Returned(v) == [raised |-> FALSE, value |-> v, exc |-> Exc("", "")]

Raised(e) == [raised |-> TRUE, value |-> JsonNull, exc |-> e]

\* `not eth_address` is false exactly for truthy values
Truthy(v) ==
    CASE v.type = "null" -> FALSE
      [] v.type = "string" -> Len(v.val) > 0
      [] v.type = "number" -> v.val # <<"0">>
      [] OTHER -> TRUE

\* jsonify(payload), status
Response(status, payload) == [status |-> status, body |-> payload]

(***************************************************************************)
(* verify_subscription, app.py lines 25-45                                 *)
(***************************************************************************)
\* request.get_json(): a body that is not parseable JSON raises BadRequest,
\* any JSON document (an object, null, an array) is returned as parsed
GetJson(body) ==
    IF body.kind = "malformed"
    THEN [raised |-> TRUE, value |-> body, exc |-> Exc("BadRequest", "400 Bad Request")]
    ELSE [raised |-> FALSE, value |-> body, exc |-> Exc("", "")]

\* data.get('eth_address'): only a dict has .get; a missing key gives None
DictGet(data) ==
    CASE data.kind = "null" ->
            Raised(Exc("AttributeError", "'NoneType' object has no attribute 'get'"))
      [] data.kind = "array" ->
            Raised(Exc("AttributeError", "'list' object has no attribute 'get'"))
      [] OTHER -> Returned(IF data.has THEN data.eth ELSE JsonNull)

\* line 32
MissingAddressResponse == Response(400, [error |-> "eth_address is required"])

SubscriptionResponse_inverted(is_subscribed) ==
    IF is_subscribed
    THEN Response(401, [error |-> "No active subscription"])
    ELSE Response(200, [status |-> "active"])

\* lines 40-42
SubscriptionResponse(is_subscribed) ==
    IF is_subscribed
    THEN Response(200, [status |-> "active"])
    ELSE Response(401, [error |-> "No active subscription"])

VerifyExcept_swallow(e) == Response(401, [error |-> "No active subscription"])

\* lines 44-45
VerifyExcept(e) == Response(500, [error |-> Str(e)])

\* the results hasActiveSubscription(arg).call() can have
CallReturned(b) == [raised |-> FALSE, value |-> b, exc |-> Exc("", "")]

CallRaised(t) == [raised |-> TRUE, value |-> FALSE, exc |-> Exc(t, t)]

CallOutcomes ==
    { CallReturned(TRUE), CallReturned(FALSE),
      CallRaised("UpstreamUnavailable"), CallRaised("ContractCallFailed") }

\* line 38: the call on the configured contract, with the argument as passed
HasActiveSubscription(arg) == chain[arg]

\* the local eth_address of worker w's invocation (line 29)
EthAddress(w) == DictGet(req[w].body).value

Finish(w, r) ==
    /\ resp' = [resp EXCEPT ![w] = r]
    /\ pc' = [pc EXCEPT ![w] = "done"]

\* lines 26-32: parse the body, read eth_address, reject a falsy one
VerifyReceive(w, body) ==
    /\ pc[w] \in {"idle", "done"}
    /\ req' = [req EXCEPT ![w] = [op |-> "verify", body |-> body, address |-> << >>]]
    /\ calls' = [calls EXCEPT ![w] = << >>]
    /\ conn' = [conn EXCEPT ![w] = "none"]
    /\ rows' = [rows EXCEPT ![w] = << >>]
    /\ LET j == GetJson(body)
           g == DictGet(j.value)
       IN  IF j.raised THEN Finish(w, VerifyExcept(j.exc))
           ELSE IF g.raised THEN Finish(w, VerifyExcept(g.exc))
           ELSE IF ~Truthy(g.value) THEN Finish(w, MissingAddressResponse)
           ELSE /\ pc' = [pc EXCEPT ![w] = "v_call"]
                /\ resp' = [resp EXCEPT ![w] = NoResp]
    /\ UNCHANGED <<chain, store, dbFault, stdout, exc>>

VerifyCall_retry(w) ==
    /\ pc[w] = "v_call"
    /\ Len(calls[w]) < 2
    /\ LET arg == EthAddress(w).val
           out == HasActiveSubscription(arg)
       IN  /\ calls' = [calls EXCEPT ![w] = Append(@, arg)]
           /\ IF out.raised /\ Len(calls[w]) = 0
              THEN UNCHANGED <<pc, resp>>
              ELSE IF out.raised THEN Finish(w, VerifyExcept(out.exc))
              ELSE Finish(w, SubscriptionResponse(out.value))
    /\ UNCHANGED <<chain, store, dbFault, stdout, req, conn, rows, exc>>

\* lines 35-45: one call with eth_address, mapped to 200, 401 or 500
VerifyCall(w) ==
    /\ pc[w] = "v_call"
    /\ LET arg == EthAddress(w).val
           out == HasActiveSubscription(arg)
       IN  /\ calls' = [calls EXCEPT ![w] = Append(@, arg)]
           /\ IF out.raised
              THEN Finish(w, VerifyExcept(out.exc))
              ELSE Finish(w, SubscriptionResponse(out.value))
    /\ UNCHANGED <<chain, store, dbFault, stdout, req, conn, rows, exc>>

(***************************************************************************)
(* get_node_details, app.py lines 47-84                                    *)
(***************************************************************************)
\* SQLite LOWER(): folds the ASCII letters A-Z, leaves every other character
LowerChar(c) ==
    CASE c = "A" -> "a"
      [] c = "B" -> "b"
      [] c = "X" -> "x"
      [] OTHER -> c

Lower(s) == [i \in DOMAIN s |-> LowerChar(s[i])]

\* line 58: LOWER(address) = LOWER(?)
AddressMatches(stored, param) == Lower(stored) = Lower(param)

\* line 58: status = 'approved'
StatusMatches(status) == status = "approved"

\* the WHERE clause of lines 55-59
Where(row, param) == AddressMatches(row.address, param) /\ StatusMatches(row.status)

Project(row) == [friendly_name |-> row.friendly_name, country |-> row.country]

\* lines 55-59: SELECT friendly_name, country ... in table order
Select(table, param) ==
    LET hits == SelectSeq(table, LAMBDA r : Where(r, param))
    IN  [i \in DOMAIN hits |-> Project(hits[i])]

\* cursor.fetchone(): the first row of the result set, or none
FetchOne(rs) == IF rs = << >> THEN << >> ELSE <<Head(rs)>>

Placeholder == [friendly_name |-> "Hold on there", country |-> "Hold on there"]

\* sqlite3's message for undecodable TEXT quotes the text up to a length
\* limit and up to the first NUL: the invalid byte shows as U+FFFD (written
\* <U+FFFD> here), or the quoted part ends before it and the message is
\* plain ASCII
DecodeErrorShown ==
    "Could not decode to UTF-8 column 'friendly_name' with text '<U+FFFD>'"

DecodeErrorCut ==
    "Could not decode to UTF-8 column 'friendly_name' with text 'Alpha'"

DecodeError(fault) ==
    Exc("OperationalError", IF fault = "fetch" THEN DecodeErrorShown ELSE DecodeErrorCut)

(***************************************************************************)
(* print: what a debug print hands to sys.stdout, and what the stream does *)
(* with it.  A text is known by its UTF-8 length with the newline and by   *)
(* whether it is all ASCII; addresses, rows and every message but          *)
(* DecodeErrorShown are ASCII in this model.                               *)
(***************************************************************************)
Text(n, a) == [bytes |-> n + 1, ascii |-> a]

IsAscii(m) == m # DecodeErrorShown

\* U+FFFD is three bytes in UTF-8
Utf8Len(m) == IF IsAscii(m) THEN Len(m) ELSE Len(m) - Len("<U+FFFD>") + 3

\* repr() of a str, of the row tuple and of the response dict
ReprStr(s) == Len(s) + Len("''")

ReprRow(r) == Len("(") + ReprStr(r.friendly_name) + Len(", ") + ReprStr(r.country) + Len(")")

ReprDict(r) ==
    Len("{'friendly_name': ") + ReprStr(r.friendly_name)
        + Len(", 'country': ") + ReprStr(r.country) + Len("}")

\* line 50
Text50(address) == Text(Len("Getting details for node: ") + Len(address), TRUE)

\* line 62
Text62(result) ==
    Text(Len("Database result: ")
            + (IF result = << >> THEN Len("None") ELSE ReprRow(Head(result))), TRUE)

\* line 70
Text70(result) == Text(Len("Sending response: ") + ReprDict(Head(result)), TRUE)

\* line 73
Text73(address) == Text(Len("No data found for address: ") + Len(address), TRUE)

\* line 80: two arguments, joined by a space
Text80(e) ==
    Text(Len("Error fetching node details:") + Len(" ") + Utf8Len(Str(e)), IsAscii(Str(e)))

\* print(text) on stream s raises when the encoding lacks a character of the
\* text, or when the text brings the pending bytes to the chunk size and the
\* sink rejects the write
PrintRaises(s, text) ==
    \/ (s.kind = "ascii" /\ ~text.ascii)
    \/ (Rejecting(s) /\ s.fill + text.bytes >= ChunkSize)

\* the exception of a print that raises: str(e) of the OSError carries the
\* errno of the rejected write
PrintError(s) ==
    CASE s.kind = "full" -> Exc("OSError", "[Errno 28] No space left on device")
      [] s.kind = "pipe" -> Exc("BrokenPipeError", "[Errno 32] Broken pipe")
      [] OTHER -> Exc("UnicodeEncodeError", "'ascii' codec can't encode character")

\* the stream after print(text): the bytes are pending; a rejected write
\* discards what was pending, so the prints that follow pass
AfterPrint(s, text) ==
    IF Rejecting(s)
    THEN Stream(s.kind, IF PrintRaises(s, text) THEN 0 ELSE s.fill + text.bytes)
    ELSE s

\* The pending bytes grow with every request until a write is rejected.
\* Requests are followed while the buffer is within Window bytes of either
\* end of the chunk; a request arriving in between is outside the model.
InWindow(s) == ~Rejecting(s) \/ s.fill < Window \/ s.fill + Window >= ChunkSize

\* an exception that leaves the handler: the framework answers 500
Unhandled == Response(500, [error |-> "Internal Server Error"])

\* an exception raised inside the try of line 49: control goes to line 79
Raise(w, e) ==
    /\ exc' = [exc EXCEPT ![w] = e]
    /\ pc' = [pc EXCEPT ![w] = "n_except"]

\* one print call inside the try by worker w; `next` is where it goes on.
\* The call is one step: the text and the newline reach the stream without
\* the handler running a statement in between.
DoPrint(w, text, next) ==
    /\ stdout' = AfterPrint(stdout, text)
    /\ IF PrintRaises(stdout, text)
       THEN Raise(w, PrintError(stdout))
       ELSE /\ pc' = [pc EXCEPT ![w] = next]
            /\ UNCHANGED exc

\* lines 48-50: the framework calls the handler, which prints the address
NodePrint50(w, address) ==
    /\ pc[w] \in {"idle", "done"}
    /\ InWindow(stdout)
    /\ req' = [req EXCEPT ![w] = [op |-> "node", body |-> NoBody, address |-> address]]
    /\ resp' = [resp EXCEPT ![w] = NoResp]
    /\ calls' = [calls EXCEPT ![w] = << >>]
    /\ rows' = [rows EXCEPT ![w] = << >>]
    /\ conn' = [conn EXCEPT ![w] = "none"]
    /\ DoPrint(w, Text50(address), "n_connect")
    /\ UNCHANGED <<chain, store, dbFault>>

\* lines 51-52: open this request's own connection
NodeConnect(w) ==
    /\ pc[w] = "n_connect"
    /\ IF dbFault = "connect"
       THEN /\ Raise(w, Exc("OperationalError", "unable to open database file"))
            /\ UNCHANGED conn
       ELSE /\ conn' = [conn EXCEPT ![w] = "open"]
            /\ pc' = [pc EXCEPT ![w] = "n_execute"]
            /\ UNCHANGED exc
    /\ UNCHANGED <<chain, store, dbFault, stdout, req, resp, rows, calls>>

\* lines 55-59: run the query; an exception goes to line 79 past conn.close()
NodeExecute(w) ==
    /\ pc[w] = "n_execute"
    /\ IF dbFault = "query"
       THEN /\ Raise(w, Exc("OperationalError", "no such table: pending_nodes"))
            /\ UNCHANGED rows
       ELSE /\ rows' = [rows EXCEPT ![w] = Select(store, req[w].address)]
            /\ pc' = [pc EXCEPT ![w] = "n_fetch"]
            /\ UNCHANGED exc
    /\ UNCHANGED <<chain, store, dbFault, stdout, req, resp, conn, calls>>

\* line 61: result = cursor.fetchone(); it raises only when there is a row
\* to decode.  From here on rows[w] holds `result`.
NodeFetch(w) ==
    /\ pc[w] = "n_fetch"
    /\ IF dbFault \in {"fetch", "fetch_cut"} /\ rows[w] # << >>
       THEN /\ Raise(w, DecodeError(dbFault))
            /\ UNCHANGED rows
       ELSE /\ rows' = [rows EXCEPT ![w] = FetchOne(rows[w])]
            /\ pc' = [pc EXCEPT ![w] = "n_print62"]
            /\ UNCHANGED exc
    /\ UNCHANGED <<chain, store, dbFault, stdout, req, resp, conn, calls>>

\* line 62: print the result, before the connection is closed
NodePrint62(w) ==
    /\ pc[w] = "n_print62"
    /\ DoPrint(w, Text62(rows[w]), "n_close")
    /\ UNCHANGED <<chain, store, dbFault, req, resp, conn, rows, calls>>

\* line 63
NodeClose(w) ==
    /\ pc[w] = "n_close"
    /\ conn' = [conn EXCEPT ![w] = "closed"]
    /\ pc' = [pc EXCEPT ![w] = "n_answer"]
    /\ UNCHANGED <<chain, store, dbFault, stdout, req, resp, rows, calls, exc>>

\* lines 65-71 and 72-77, once the print has passed
NodeResponse(result) ==
    IF result # << >>
    THEN Response(200, [friendly_name |-> Head(result).friendly_name,
                        country |-> Head(result).country])
    ELSE Response(200, Placeholder)

\* lines 65-77: the print of line 70 or 73, then the answer
NodeAnswer(w) ==
    /\ pc[w] = "n_answer"
    /\ LET text == IF rows[w] # << >> THEN Text70(rows[w]) ELSE Text73(req[w].address)
       IN  /\ stdout' = AfterPrint(stdout, text)
           /\ IF PrintRaises(stdout, text)
              THEN /\ Raise(w, PrintError(stdout))
                   /\ UNCHANGED resp
              ELSE /\ Finish(w, NodeResponse(rows[w]))
                   /\ UNCHANGED exc
    /\ UNCHANGED <<chain, store, dbFault, req, conn, rows, calls>>

\* lines 79-84: print the error, then answer the placeholder with status
\* 200; an exception of the print on line 80 leaves the handler
NodeExcept(w) ==
    /\ pc[w] = "n_except"
    /\ stdout' = AfterPrint(stdout, Text80(exc[w]))
    /\ Finish(w, IF PrintRaises(stdout, Text80(exc[w]))
                 THEN Unhandled
                 ELSE Response(200, Placeholder))
    /\ exc' = [exc EXCEPT ![w] = NoExc]
    /\ UNCHANGED <<chain, store, dbFault, req, conn, rows, calls>>

(***************************************************************************)
(* Initial states and the specification                                    *)
(***************************************************************************)
\* the display name registered with each stored spelling
FriendlyNameOf(a) == IF a = <<"0", "x", "a">> THEN "Alpha" ELSE "Beta"

\* the rows pending_nodes can hold: either spelling, in either status
Records ==
    { [address |-> a, friendly_name |-> FriendlyNameOf(a), country |-> c, status |-> s] :
        a \in StoredAddresses, c \in Countries, s \in Statuses }

Stores == UNION { [1..n -> Records] : n \in 0..MaxRows }

ChainStates == [Addresses -> CallOutcomes]

\* a chain where the two spellings of one account answer differently
MixedChain ==
    [a \in Addresses |->
        IF a = <<"0", "x", "a">> THEN CallReturned(TRUE)
        ELSE IF a = <<"0", "x", "A">> THEN CallRaised("ContractCallFailed")
        ELSE CallReturned(FALSE)]

\* a file that cannot be opened or that lacks the table holds no rows, and
\* undecodable TEXT sits in some row
TableFits(table, fault) ==
    /\ fault \in {"connect", "query"} => table = << >>
    /\ fault \in {"fetch", "fetch_cut"} => table # << >>

\* what the prints of earlier requests left pending in a stream whose sink
\* rejects writes: nothing, or all but Window, half of Window or a quarter
\* of Window bytes of a chunk.  Line 50 prints the address of the path,
\* which has any length, so every number of pending bytes below ChunkSize
\* is left by some earlier requests.
InitialFills ==
    {0} \cup { ChunkSize - Window \div d : d \in {1, 2, 4} }

\* the streams the process can be serving requests with
Streams ==
    {Stream("utf-8", 0), Stream("ascii", 0)}
        \cup { Stream(k, n) : k \in {"full", "pipe"}, n \in InitialFills }

\* the tables served with a rejecting stdout: at most one row
SmallStores == { t \in Stores : Len(t) <= 1 }

InitWorkers ==
    /\ pc = [w \in Workers |-> "idle"]
    /\ req = [w \in Workers |-> NoReq]
    /\ resp = [w \in Workers |-> NoResp]
    /\ conn = [w \in Workers |-> "none"]
    /\ rows = [w \in Workers |-> << >>]
    /\ calls = [w \in Workers |-> << >>]
    /\ exc = [w \in Workers |-> NoExc]

\* Neither collaborator is written by a handler, so each is varied over its
\* whole domain with the other at a fixed value.
Init ==
    /\ InitWorkers
    /\ \/ /\ chain \in ChainStates
          /\ store = << >>
          /\ dbFault = "none"
          /\ stdout = Stream("utf-8", 0)
       \/ /\ chain = MixedChain
          /\ store \in Stores
          /\ dbFault \in DbFaults
          /\ TableFits(store, dbFault)
          /\ stdout \in Streams
          /\ Rejecting(stdout) => store \in SmallStores

Next ==
    \E w \in Workers :
        \/ \E body \in Bodies : VerifyReceive(w, body)
        \/ VerifyCall(w)
        \/ \E address \in Addresses : NodePrint50(w, address)
        \/ NodeConnect(w)
        \/ NodeExecute(w)
        \/ NodeFetch(w)
        \/ NodePrint62(w)
        \/ NodeClose(w)
        \/ NodeAnswer(w)
        \/ NodeExcept(w)

Spec == Init /\ [][Next]_vars

(***************************************************************************)
(* Properties                                                              *)
(***************************************************************************)
DoneVerify(w) == pc[w] = "done" /\ req[w].op = "verify"

DoneNode(w) == pc[w] = "done" /\ req[w].op = "node"

\* the request carries a non-empty address string
HasAddress(body) ==
    body.kind = "object" /\ body.has /\ body.eth.type = "string" /\ Len(body.eth.val) > 0

\* eth_address is empty or missing: no JSON object, no member, null or ""
AddressMissing(body) ==
    \/ body.kind # "object"
    \/ ~body.has
    \/ body.eth.type = "null"
    \/ (body.eth.type = "string" /\ body.eth.val = << >>)

\* two addresses are the same up to letter case
SameUpToCase(a, b) == Lower(a) = Lower(b)

\* the positions of the approved rows stored for `address`, up to case
ApprovedRows(address) ==
    { i \in DOMAIN store : store[i].status = "approved" /\ SameUpToCase(store[i].address, address) }

FirstOf(S) == CHOOSE i \in S : \A j \in S : i <= j

\* C1: every finished VerifySubscription request whose eth_address is empty
\* or missing (member absent, null, "", or no JSON object body) was answered
\* 400 {"error": "eth_address is required"}.
C1_MissingAddressIs400 ==
    \A w \in Workers :
        (DoneVerify(w) /\ AddressMissing(req[w].body))
            => resp[w] = Response(400, [error |-> "eth_address is required"])

\* C2: for a non-empty address whose entitlement call returns, the answer is
\* 200 {"status": "active"} when it returned true and
\* 401 {"error": "No active subscription"} when it returned false.
C2_ReturnedCallMapsTo200Or401 ==
    \A w \in Workers :
        (DoneVerify(w) /\ HasAddress(req[w].body) /\ ~chain[req[w].body.eth.val].raised)
            => resp[w] = IF chain[req[w].body.eth.val].value
                         THEN Response(200, [status |-> "active"])
                         ELSE Response(401, [error |-> "No active subscription"])

C2_Witness ==
    \E w, v \in Workers :
        /\ DoneVerify(w) /\ HasAddress(req[w].body) /\ resp[w].status = 200
        /\ DoneVerify(v) /\ HasAddress(req[v].body) /\ resp[v].status = 401

\* C3: every GetNodeDetails answer has status 200, and when the store fails
\* on connect, on the query or on reading the row the body is the placeholder.
C3_NodeDetailsAlways200 ==
    \A w \in Workers :
        /\ (req[w].op = "node" /\ resp[w] # NoResp) => resp[w].status = 200
        /\ (DoneNode(w) /\ dbFault # "none") => resp[w] = Response(200, Placeholder)

\* C4: when the store answers and holds an approved row for the requested
\* address up to letter case, the answer is friendly_name and country of that
\* row, unchanged (of the first such row in table order when there are several).
C4_ApprovedRecordReturnedAnyCase ==
    \A w \in Workers :
        (DoneNode(w) /\ dbFault = "none" /\ ApprovedRows(req[w].address) # {})
            => LET r == store[FirstOf(ApprovedRows(req[w].address))]
               IN  resp[w] = Response(200, [friendly_name |-> r.friendly_name,
                                            country |-> r.country])

\* C5: when the store holds no approved row for the requested address (no
\* row, or only rows of another status), the answer is exactly the placeholder.
C5_NoApprovedRecordGivesPlaceholder ==
    \A w \in Workers :
        (DoneNode(w) /\ ApprovedRows(req[w].address) = {})
            => resp[w] = Response(200, Placeholder)

\* C6: for a non-empty address whose entitlement call raises, of either
\* failure kind, the answer is 500 with the error's description in "error".
C6_FailedCallIs500 ==
    \A w \in Workers :
        (DoneVerify(w) /\ HasAddress(req[w].body) /\ chain[req[w].body.eth.val].raised)
            => resp[w] = Response(500, [error |-> chain[req[w].body.eth.val].exc.message])

C6_Witness ==
    \E w, v \in Workers :
        /\ DoneVerify(w) /\ HasAddress(req[w].body)
        /\ chain[req[w].body.eth.val] = CallRaised("UpstreamUnavailable")
        /\ DoneVerify(v) /\ HasAddress(req[v].body)
        /\ chain[req[v].body.eth.val] = CallRaised("ContractCallFailed")
        /\ resp[w].status = 500 /\ resp[v].status = 500

\* C7: two finished requests that are identical have identical answers,
\* whatever both workers handled before and however their steps interleaved.
C7_IdenticalRequestsIdenticalResponses ==
    \A w, v \in Workers :
        (pc[w] = "done" /\ pc[v] = "done" /\ req[w] = req[v]) => resp[w] = resp[v]

\* C8: no finished GetNodeDetails request has its connection still open.
C8_ConnectionReleasedOnEveryPath ==
    \A w \in Workers : DoneNode(w) => conn[w] # "open"

\* C9: two requests whose eth_address differ only in letter case pass the
\* same argument to hasActiveSubscription and get the same answer.
C9_CallArgumentIsCaseFolded ==
    \A w, v \in Workers :
        (/\ DoneVerify(w) /\ DoneVerify(v)
         /\ HasAddress(req[w].body) /\ HasAddress(req[v].body)
         /\ SameUpToCase(req[w].body.eth.val, req[v].body.eth.val))
            => (calls[w] = calls[v] /\ resp[w] = resp[v])

\* C10: an invocation makes at most one entitlement call; one rejected with
\* 400 made none, and every finished one with a non-empty address made
\* exactly one of its own, also when that call failed.
C10_AtMostOneCallPerInvocation ==
    \A w \in Workers :
        /\ Len(calls[w]) <= 1
        /\ (DoneVerify(w) /\ resp[w].status = 400) => calls[w] = << >>
        /\ (DoneVerify(w) /\ HasAddress(req[w].body))
              => calls[w] = <<req[w].body.eth.val>>

C10_Witness ==
    \E w, v \in Workers :
        /\ DoneVerify(w) /\ HasAddress(req[w].body)
        /\ chain[req[w].body.eth.val].raised /\ Len(calls[w]) = 1
        /\ DoneVerify(v) /\ resp[v].status = 400 /\ calls[v] = << >>

====
